---- MODULE Spec2Model ----
(***************************************************************************)
(* go-civitai-sdk: the request pipeline of client.go and the AIR           *)
(* identifiers.                                                            *)
(*                                                                         *)
(*   doRequest              the retry loop (one attempt per iteration,     *)
(*                          classification, cancellable backoff wait)      *)
(*   isRetryableError       transport-failure classifier                   *)
(*   isRetryableStatusCode  status classifier                              *)
(*   calculateBackoffDelay  exponential backoff with jitter and a cap      *)
(*   handleResponse         size-bounded JSON decoding of a response       *)
(*   ParseAIR, String,      the AIR parser, serialiser, validator and      *)
(*   Validate, Equal        comparison                                     *)
(*                                                                         *)
(* Strings are sequences of word tokens; strings.Contains is contiguous    *)
(* sub-sequence search.  time.Duration is a two's-complement integer of    *)
(* DurationBits bits (64 in the source), counted in ticks.                 *)
(***************************************************************************)
EXTENDS Integers, Sequences, FiniteSets, TLC

VARIABLES
    maxRetries,       \* Client.maxRetries
    retryDelay,       \* Client.retryDelay
    maxRetryDelay,    \* Client.maxRetryDelay
    maxResponseSize,  \* Client.maxResponseSize
    arch,             \* the build's float64 -> int64 conversion of out-of-range values
    url,              \* doRequest's url argument
    ctx,              \* ctx.Err() of the caller's context: "active", "Canceled", "DeadlineExceeded"
    pc,               \* position of doRequest: "idle", "loop", "select", "done"
    attempt,          \* doRequest's loop variable
    lastErr,          \* doRequest's lastErr
    timer,            \* the backoff timer of the current wait: [delay, fired]
    sel,              \* the case the select statement committed to: "none", "ctx", "timer"
    ret,              \* doRequest's return value: [resp, err]
    dispatched,       \* history: number of httpClient.Do calls of this execution
    waits,            \* history: number of backoff waits entered
    lastOutcome,      \* history: what the latest httpClient.Do call returned
    priorRetryable,   \* history: every attempt before the latest ended in a retryable outcome
    cancelAt,         \* history: value of dispatched when the context ended during a blocked wait, else -1
    openBodies,       \* number of response bodies obtained by this API call and not yet closed
    apiRet,           \* the API method's return: [returned, err]
    execs,            \* concurrent executions of doRequest on the shared client, by goroutine
    probe             \* a call of one of the pure helpers: [fn, in, out]

vars == <<maxRetries, retryDelay, maxRetryDelay, maxResponseSize, arch, url, ctx, pc,
          attempt, lastErr, timer, sel, ret, dispatched, waits, lastOutcome,
          priorRetryable, cancelAt, openBodies, apiRet, execs, probe>>

clientVars == <<maxRetries, retryDelay, maxRetryDelay, maxResponseSize, arch>>
execVars == <<url, ctx, pc, attempt, lastErr, timer, sel, ret, dispatched, waits,
              lastOutcome, priorRetryable, cancelAt,
              openBodies, apiRet, execs>>

(***************************************************************************)
(* Bounds of the model.                                                    *)
(***************************************************************************)
MaxRetriesBound == 3     \* maxRetries ranges over 0..MaxRetriesBound
DurationBits == 10       \* width of the modelled time.Duration
JitterSteps == 4         \* rand.Float64() ranges over k/JitterSteps, k in 0..JitterSteps-1
MaxAttemptProbe == 5     \* calculateBackoffDelay is probed for attempts 0..MaxAttemptProbe
MaxBodyLen == 4          \* response bodies have at most MaxBodyLen bytes
MaxTailLen == 5          \* AIR strings: at most MaxTailLen characters follow the head
MaxMutations == 2        \* writes to an AIR and its clone after Clone()
NegativeRetries == 2     \* WithRetryConfig is given maxRetries down to -NegativeRetries

(***************************************************************************)
(* net/http status codes named by client.go.                               *)
(***************************************************************************)
StatusTooManyRequests == 429
StatusInternalServerError == 500
StatusBadGateway == 502
StatusServiceUnavailable == 503
StatusGatewayTimeout == 504

\* statuses the modelled server answers with
Statuses == {200, 301, 400, 404, 429, 500, 501, 502, 503, 504}

(***************************************************************************)
(* Strings as token sequences.                                             *)
(***************************************************************************)
\* strings.Contains(s, substr)
Contains(s, substr) ==
    \E i \in 0..(Len(s) - Len(substr)) :
        \A j \in 1..Len(substr) : s[i + j] = substr[j]

\* request URLs handed to doRequest; the query string is pre-encoded by the
\* endpoint method (url.Values.Encode writes a space as "+")
Urls == { <<"models">>,
          <<"models", "?", "query", "=", "timeout">>,
          <<"models", "?", "tag", "=", "connection", "+", "reset">> }

(***************************************************************************)
(* Errors.  A transport error is [op, url, cause]: op = "" for a bare      *)
(* error value, op = "Get" for the *url.Error that http.Client.Do returns  *)
(* around the cause.                                                       *)
(***************************************************************************)
NilError == [op |-> "", url |-> <<>>, cause |-> "nil", status |-> 0]
BareError(cause) == [op |-> "", url |-> <<>>, cause |-> cause, status |-> 0]
URLError(u, cause) == [op |-> "Get", url |-> u, cause |-> cause, status |-> 0]
\* fmt.Errorf("HTTP %d: %s", resp.StatusCode, http.StatusText(resp.StatusCode))
HTTPStatusError(status) == [op |-> "", url |-> <<>>, cause |-> "HTTP", status |-> status]

\* causes of a failed round trip that does not stem from the caller's context
NetCauses == {"connRefused", "ioTimeout", "noSuchHost", "tempFailure",
              "netUnreachable", "connReset", "clientTimeout", "unsupportedScheme"}
CtxCauses == {"Canceled", "DeadlineExceeded"}

\* Error() of the cause
CauseText(cause) ==
    CASE cause = "Canceled" -> <<"context", "canceled">>
      [] cause = "DeadlineExceeded" -> <<"context", "deadline", "exceeded">>
      [] cause = "connRefused" -> <<"dial", "tcp", ":", "connect", ":", "connection", "refused">>
      [] cause = "ioTimeout" -> <<"dial", "tcp", ":", "i/o", "timeout">>
      [] cause = "noSuchHost" -> <<"dial", "tcp", ":", "lookup", ":", "no", "such", "host">>
      [] cause = "tempFailure" -> <<"lookup", ":", "temporary", "failure", "in", "name", "resolution">>
      [] cause = "netUnreachable" -> <<"dial", "tcp", ":", "connect", ":", "network", "is", "unreachable">>
      [] cause = "connReset" -> <<"read", "tcp", ":", "connection", "reset", "by", "peer">>
      [] cause = "clientTimeout" -> <<"context", "deadline", "exceeded", "(", "Client.Timeout",
                                      "exceeded", "while", "awaiting", "headers", ")">>
      [] cause = "unsupportedScheme" -> <<"unsupported", "protocol", "scheme">>
      [] OTHER -> <<>>

\* err.Error(): a *url.Error prints as  Op "URL": cause
ErrorText(err) ==
    IF err.op = "" THEN CauseText(err.cause)
    ELSE <<err.op>> \o err.url \o <<":">> \o CauseText(err.cause)

\* the error stems from explicit cancellation of the caller's context
IsCancellation(err) == err.cause = "Canceled"

isRetryableError(err) ==
    IF err = NilError THEN FALSE
    ELSE IF err = BareError("DeadlineExceeded") THEN TRUE
    ELSE IF err = BareError("Canceled") THEN FALSE
    ELSE LET errStr == ErrorText(err) IN
         \/ Contains(errStr, <<"timeout">>)
         \/ Contains(errStr, <<"connection", "refused">>)
         \/ Contains(errStr, <<"no", "such", "host">>)
         \/ Contains(errStr, <<"temporary", "failure">>)
         \/ Contains(errStr, <<"network", "is", "unreachable">>)
         \/ Contains(errStr, <<"connection", "reset">>)

isRetryableStatusCode_NoGatewayTimeout(statusCode) ==
    \/ statusCode = StatusTooManyRequests
    \/ statusCode = StatusInternalServerError
    \/ statusCode = StatusBadGateway
    \/ statusCode = StatusServiceUnavailable

isRetryableStatusCode_AllServerErrors(statusCode) ==
    \/ statusCode = StatusTooManyRequests
    \/ statusCode >= StatusInternalServerError

isRetryableStatusCode(statusCode) ==
    \/ statusCode = StatusTooManyRequests
    \/ statusCode = StatusInternalServerError
    \/ statusCode = StatusBadGateway
    \/ statusCode = StatusServiceUnavailable
    \/ statusCode = StatusGatewayTimeout

(***************************************************************************)
(* time.Duration arithmetic.                                               *)
(***************************************************************************)
RECURSIVE Pow2(_)
Pow2(n) == IF n <= 0 THEN 1 ELSE 2 * Pow2(n - 1)

MaxDuration == Pow2(DurationBits - 1) - 1
MinDuration == 0 - Pow2(DurationBits - 1)

\* two's-complement wrap-around of integer addition
Wrap(x) == ((x + Pow2(DurationBits - 1)) % Pow2(DurationBits)) - Pow2(DurationBits - 1)

\* truncation toward zero of num/den, den > 0
TruncDiv(num, den) == IF num >= 0 THEN num \div den ELSE 0 - ((0 - num) \div den)

\* time.Duration(f) for a float64 f = num/den: truncation when the value is
\* representable; otherwise the result depends on the build (amd64 yields the
\* minimum value, arm64 saturates)
FloatToDuration(num, den) ==
    LET t == TruncDiv(num, den) IN
    IF t >= MinDuration /\ t <= MaxDuration THEN t
    ELSE IF arch = "amd64" THEN MinDuration
    ELSE IF t > 0 THEN MaxDuration ELSE MinDuration

\* retry policies (retryDelay, maxRetryDelay), 0 <= retryDelay <= maxRetryDelay
Policies == { <<0, 0>>, <<1, 8>>, <<100, 400>>, <<200, 500>> }
Archs == {"amd64", "arm64"}

\* client.go 452-456: the delay before the cap; k/JitterSteps is rand.Float64()
backoffBeforeCap(attemptIdx, k) ==
    LET delay == FloatToDuration(retryDelay * Pow2(attemptIdx), 1)
        jitter == FloatToDuration(delay * (2 * k - JitterSteps), 4 * JitterSteps)
    IN Wrap(delay + jitter)

calculateBackoffDelay(attemptIdx, k) ==
    LET delay == backoffBeforeCap(attemptIdx, k) IN
    IF delay > maxRetryDelay THEN maxRetryDelay ELSE delay

(***************************************************************************)
(* doRequest.                                                              *)
(***************************************************************************)
NoResp == [status |-> 0]
Resp(status) == [status |-> status]
NoOutcome == [resp |-> NoResp, err |-> NilError]

NoError == [kind |-> "nil", attempts |-> 0, wrapped |-> NilError]
\* fmt.Errorf("failed to create request: %w", err)
createError == [kind |-> "create", attempts |-> 0, wrapped |-> BareError("parse")]
\* fmt.Errorf("failed to execute request: %w", err)
executeError(err) == [kind |-> "execute", attempts |-> 0, wrapped |-> err]

\* fmt.Errorf("failed to execute request after %d attempts: %w", c.maxRetries+1, lastErr)
exhaustedError(last) ==
    [kind |-> "exhausted", attempts |-> maxRetries + 1, wrapped |-> last]

waitError_Exhausted(c) == exhaustedError(BareError(c))

\* return nil, ctx.Err()
waitError(c) == [kind |-> "ctx", attempts |-> 0, wrapped |-> BareError(c)]

\* a URL http.NewRequestWithContext cannot parse
BadUrl == <<"%zz">>

loopContinues_Exclusive(i) == i < maxRetries

\* the loop condition  attempt <= c.maxRetries
loopContinues(i) == i <= maxRetries

waitFollows_Always(i) == TRUE

\* "Don't wait after the last attempt":  if attempt < c.maxRetries
waitFollows(i) == i < maxRetries

newLastErr_KeepFirst(prev, out) ==
    IF prev # NilError THEN prev
    ELSE IF out.err = NilError THEN HTTPStatusError(out.resp.status)
    ELSE out.err

\* lastErr after the outcome of httpClient.Do has been inspected (498-510)
newLastErr(prev, out) ==
    IF out.err = NilError
    THEN IF ~isRetryableStatusCode(out.resp.status) THEN prev
         ELSE HTTPStatusError(out.resp.status)
    ELSE out.err

bodiesOpenAfter_NoClose(open, out) ==
    IF out.err # NilError THEN open ELSE open + 1

\* the bodies left open by an attempt: httpClient.Do hands over an open body
\* with every response, and doRequest closes it when the status is retryable
\* (498-504)
bodiesOpenAfter(open, out) ==
    IF out.err # NilError THEN open
    ELSE IF ~isRetryableStatusCode(out.resp.status) THEN open + 1
    ELSE (open + 1) - 1

verdict_ReturnEveryResponse(out) ==
    IF out.err = NilError THEN "return"
    ELSE IF ~isRetryableError(out.err) THEN "fatal" ELSE "retry"

verdict_RetryEveryError(out) ==
    IF out.err = NilError
    THEN IF ~isRetryableStatusCode(out.resp.status) THEN "return" ELSE "retry"
    ELSE "retry"

\* what the iteration does with the outcome (498-510)
verdict(out) ==
    IF out.err = NilError
    THEN IF ~isRetryableStatusCode(out.resp.status) THEN "return" ELSE "retry"
    ELSE IF ~isRetryableError(out.err) THEN "fatal" ELSE "retry"

\* what httpClient.Do may return, and the context's state after the call: a
\* response, a failed round trip, or the context ending during the call; with
\* the context already done the round trip fails at once with its error
DoOutcomes ==
    IF ctx # "active"
    THEN { [out |-> [resp |-> NoResp, err |-> URLError(url, ctx)], ctx |-> ctx] }
    ELSE { [out |-> [resp |-> Resp(s), err |-> NilError], ctx |-> ctx] : s \in Statuses }
         \cup { [out |-> [resp |-> NoResp, err |-> URLError(url, c)], ctx |-> ctx] : c \in NetCauses }
         \cup { [out |-> [resp |-> NoResp, err |-> URLError(url, c)], ctx |-> c] : c \in CtxCauses }

\* the caller invokes doRequest(ctx, "GET", u, nil)
doRequestCall(u) ==
    /\ pc = "idle"
    /\ url' = u
    /\ pc' = "loop"
    /\ attempt' = 0
    /\ lastErr' = NilError
    /\ UNCHANGED <<clientVars, ctx, timer, sel, ret, dispatched, waits, lastOutcome,
                   priorRetryable, cancelAt, probe, openBodies, apiRet, execs>>

\* the failure an attempt's outcome stands for
FailureOf(out) == IF out.err = NilError THEN HTTPStatusError(out.resp.status) ELSE out.err

\* retryable outcomes as the specification lists them
RetryableStatuses == {429, 500, 502, 503, 504}
RetryableCauses == {"connRefused", "ioTimeout", "noSuchHost", "tempFailure",
                    "netUnreachable", "connReset"}
OutcomeRetryable(out) ==
    IF out.err = NilError THEN out.resp.status \in RetryableStatuses
    ELSE out.err.cause \in RetryableCauses

\* request creation fails (481-483)
CreateFails ==
    /\ pc = "loop"
    /\ loopContinues(attempt)
    /\ url = BadUrl
    /\ ret' = [resp |-> NoResp, err |-> createError]
    /\ pc' = "done"
    /\ UNCHANGED <<clientVars, url, ctx, attempt, lastErr, timer, sel, dispatched, waits,
                   lastOutcome, priorRetryable, cancelAt, probe, openBodies, apiRet, execs>>

\* one loop iteration up to its return, the select statement or the loop's
\* post statement (470-518)
Dispatch ==
    /\ pc = "loop"
    /\ loopContinues(attempt)
    /\ url # BadUrl
    /\ \E o \in DoOutcomes :
        LET out == o.out
            v == verdict(out)
        IN
        /\ ctx' = o.ctx
        /\ dispatched' = dispatched + 1
        /\ priorRetryable' = (priorRetryable /\ (dispatched = 0 \/ OutcomeRetryable(lastOutcome)))
        /\ lastOutcome' = out
        /\ lastErr' = newLastErr(lastErr, out)
        /\ openBodies' = bodiesOpenAfter(openBodies, out)
        /\ CASE v = "return" ->
                  /\ ret' = [resp |-> out.resp, err |-> NoError]
                  /\ pc' = "done"
                  /\ UNCHANGED <<attempt, timer, sel, waits>>
             [] v = "fatal" ->
                  /\ ret' = [resp |-> NoResp, err |-> executeError(out.err)]
                  /\ pc' = "done"
                  /\ UNCHANGED <<attempt, timer, sel, waits>>
             [] OTHER ->
                  IF waitFollows(attempt)
                  THEN \E k \in 0..(JitterSteps - 1), f \in BOOLEAN :
                         LET ready == (IF o.ctx # "active" THEN {"ctx"} ELSE {})
                                      \cup (IF f THEN {"timer"} ELSE {})
                         IN
                         /\ timer' = [delay |-> calculateBackoffDelay(attempt, k), fired |-> f]
                         /\ sel' \in (IF ready = {} THEN {"none"} ELSE ready)
                         /\ waits' = waits + 1
                         /\ pc' = "select"
                         /\ UNCHANGED <<attempt, ret>>
                  ELSE /\ attempt' = attempt + 1
                       /\ UNCHANGED <<pc, timer, sel, ret, waits>>
    /\ UNCHANGED <<clientVars, url, cancelAt, probe, apiRet, execs>>

\* no timer is in scope
NoTimer == [delay |-> 0, fired |-> FALSE]

caseTimer_Missing(committed) == committed

\* case <-timer.C of the select statement (522): a blocked select commits to
\* the timer when its channel becomes ready
caseTimer(committed) == IF committed = "none" THEN "timer" ELSE committed

\* the timer's channel becomes ready
TimerFire ==
    /\ pc = "select"
    /\ ~timer.fired
    /\ timer' = [timer EXCEPT !.fired = TRUE]
    /\ sel' = caseTimer(sel)
    /\ UNCHANGED <<clientVars, url, ctx, pc, attempt, lastErr, ret, dispatched, waits,
                   lastOutcome, priorRetryable, cancelAt, probe, openBodies, apiRet, execs>>

\* the caller cancels the context, or its deadline expires
Cancel(c) ==
    /\ ctx = "active"
    /\ pc # "done"
    /\ ctx' = c
    /\ IF pc = "select" /\ sel = "none"
       THEN sel' = "ctx" /\ cancelAt' = dispatched
       ELSE UNCHANGED <<sel, cancelAt>>
    /\ UNCHANGED <<clientVars, url, pc, attempt, lastErr, timer, ret, dispatched, waits,
                   lastOutcome, priorRetryable, probe, openBodies, apiRet, execs>>

\* the select statement proceeds with the case it committed to (518-525)
SelectResume ==
    /\ pc = "select"
    /\ sel # "none"
    /\ IF sel = "ctx"
       THEN /\ ret' = [resp |-> NoResp, err |-> waitError(ctx)]
            /\ pc' = "done"
            /\ UNCHANGED attempt
       ELSE /\ attempt' = attempt + 1
            /\ pc' = "loop"
            /\ UNCHANGED ret
    /\ sel' = "none"
    /\ timer' = NoTimer
    /\ UNCHANGED <<clientVars, url, ctx, lastErr, dispatched, waits, lastOutcome,
                   priorRetryable, cancelAt, probe, openBodies, apiRet, execs>>

\* the loop ends (528)
Exhausted ==
    /\ pc = "loop"
    /\ ~loopContinues(attempt)
    /\ ret' = [resp |-> NoResp, err |-> exhaustedError(lastErr)]
    /\ pc' = "done"
    /\ UNCHANGED <<clientVars, url, ctx, attempt, lastErr, timer, sel, dispatched, waits,
                   lastOutcome, priorRetryable, cancelAt, probe, openBodies, apiRet, execs>>

NoProbe == [fn |-> "none"]

(***************************************************************************)
(* Concurrent executions.  Each goroutine that calls doRequest has its own *)
(* arguments and locals (ctx, method, url, body; attempt, lastErr, req,    *)
(* timer); the client is shared.  execs[e] holds them for goroutine e,     *)
(* with the history of its own attempts: outs, what httpClient.Do returned *)
(* to it, and sent, the requests it put on the wire.                       *)
(***************************************************************************)
Execs == {1, 2}

\* a nil []byte
NilBody == <<"nil">>

\* (method, body) pairs of the calls
Calls == { <<"GET", NilBody>>, <<"POST", <<"b1", "b2">>>> }

\* req.Header after the Set calls (486-493)
requestHeaders ==
    [UserAgent |-> "c.userAgent", ContentType |-> "application/json",
     AcceptEncoding |-> "gzip, deflate", Authorization |-> "Bearer c.apiToken"]

bodyReaderFor_MadeOnce(x) ==
    IF x.body = NilBody THEN [data |-> <<>>, pos |-> 0]
    ELSE [data |-> x.body, pos |-> IF x.attempt = 0 THEN 0 ELSE Len(x.body)]

\* the reader the attempt's request wraps: strings.NewReader(string(body)),
\* made in the iteration, or no body (475-479)
bodyReaderFor(x) ==
    IF x.body = NilBody THEN [data |-> <<>>, pos |-> 0]
    ELSE [data |-> x.body, pos |-> 0]

\* the request as httpClient.Do sends it: the transport reads the body reader
\* from its position to its end
requestSent(x) ==
    LET r == bodyReaderFor(x) IN
    [method |-> x.method, url |-> x.url, headers |-> requestHeaders,
     body |-> IF r.pos >= Len(r.data) THEN <<>> ELSE SubSeq(r.data, r.pos + 1, Len(r.data))]

\* the locals of a doRequest execution at its first statement
NewExec(method, u, body) ==
    [method |-> method, url |-> u, body |-> body, ctx |-> "active", pc |-> "loop",
     attempt |-> 0, lastErr |-> NilError, ret |-> [resp |-> NoResp, err |-> NoError],
     outs |-> <<>>, sent |-> <<>>, waits |-> 0, cancelledInWait |-> FALSE]

attemptOf_Goroutine1(e) == execs[1].attempt

\* the attempt index goroutine e reads: its own loop variable (470)
attemptOf(e) == execs[e].attempt

\* what httpClient.Do may return to a goroutine whose context is in state c
ExecOutcomes(u, c) ==
    IF c # "active" THEN { [resp |-> NoResp, err |-> URLError(u, c)] }
    ELSE { [resp |-> Resp(200), err |-> NilError],
           [resp |-> Resp(503), err |-> NilError],
           [resp |-> NoResp, err |-> URLError(u, "connReset")],
           [resp |-> NoResp, err |-> URLError(u, "unsupportedScheme")] }

\* go func() { client.SearchModels(ctx, ...) }() for every goroutine
Launch ==
    /\ execs = <<>>
    /\ pc = "idle"
    /\ probe = NoProbe
    /\ \E c1 \in Calls, c2 \in Calls :
         execs' = [e \in Execs |->
                     IF e = 1 THEN NewExec(c1[1], <<"models">>, c1[2])
                     ELSE NewExec(c2[1], <<"images">>, c2[2])]
    /\ UNCHANGED <<clientVars, url, ctx, pc, attempt, lastErr, timer, sel, ret, dispatched,
                   waits, lastOutcome, priorRetryable, cancelAt, openBodies, apiRet, probe>>

\* one iteration of goroutine e's loop up to its return, its select statement
\* or the loop's post statement (470-518)
DispatchOf(e) ==
    /\ execs # <<>>
    /\ execs[e].pc = "loop"
    /\ loopContinues(attemptOf(e))
    /\ \E out \in ExecOutcomes(execs[e].url, execs[e].ctx) :
         LET x == execs[e]
             v == verdict(out)
             y == [x EXCEPT !.outs = Append(@, out),
                            !.sent = Append(@, requestSent(x)),
                            !.lastErr = newLastErr(@, out)]
         IN execs' = [execs EXCEPT ![e] =
              CASE v = "return" -> [y EXCEPT !.ret = [resp |-> out.resp, err |-> NoError],
                                             !.pc = "done"]
                [] v = "fatal" -> [y EXCEPT !.ret = [resp |-> NoResp, err |-> executeError(out.err)],
                                            !.pc = "done"]
                [] OTHER -> IF attemptOf(e) < maxRetries
                            THEN [y EXCEPT !.pc = "select", !.waits = @ + 1]
                            ELSE [y EXCEPT !.attempt = attemptOf(e) + 1]]
    /\ UNCHANGED <<clientVars, url, ctx, pc, attempt, lastErr, timer, sel, ret, dispatched,
                   waits, lastOutcome, priorRetryable, cancelAt, openBodies, apiRet, probe>>

\* goroutine e's context is cancelled
CancelOf(e) ==
    /\ execs # <<>>
    /\ execs[e].pc # "done"
    /\ execs[e].ctx = "active"
    /\ execs' = [execs EXCEPT ![e].ctx = "Canceled"]
    /\ UNCHANGED <<clientVars, url, ctx, pc, attempt, lastErr, timer, sel, ret, dispatched,
                   waits, lastOutcome, priorRetryable, cancelAt, openBodies, apiRet, probe>>

\* goroutine e's select takes case <-timer.C (522-523)
TimerOf(e) ==
    /\ execs # <<>>
    /\ execs[e].pc = "select"
    /\ execs' = [execs EXCEPT ![e].pc = "loop", ![e].attempt = attemptOf(e) + 1]
    /\ UNCHANGED <<clientVars, url, ctx, pc, attempt, lastErr, timer, sel, ret, dispatched,
                   waits, lastOutcome, priorRetryable, cancelAt, openBodies, apiRet, probe>>

\* goroutine e's select takes case <-ctx.Done() (519-521)
CtxDoneOf(e) ==
    /\ execs # <<>>
    /\ execs[e].pc = "select"
    /\ execs[e].ctx # "active"
    /\ execs' = [execs EXCEPT ![e].pc = "done",
                              ![e].ret = [resp |-> NoResp, err |-> waitError(execs[e].ctx)],
                              ![e].cancelledInWait = TRUE]
    /\ UNCHANGED <<clientVars, url, ctx, pc, attempt, lastErr, timer, sel, ret, dispatched,
                   waits, lastOutcome, priorRetryable, cancelAt, openBodies, apiRet, probe>>

\* goroutine e's loop ends (528)
ExhaustedOf(e) ==
    /\ execs # <<>>
    /\ execs[e].pc = "loop"
    /\ ~loopContinues(attemptOf(e))
    /\ execs' = [execs EXCEPT ![e].pc = "done",
                              ![e].ret = [resp |-> NoResp,
                                          err |-> exhaustedError(execs[e].lastErr)]]
    /\ UNCHANGED <<clientVars, url, ctx, pc, attempt, lastErr, timer, sel, ret, dispatched,
                   waits, lastOutcome, priorRetryable, cancelAt, openBodies, apiRet, probe>>


(***************************************************************************)
(* handleResponse.  A body is a sequence of bytes over a small alphabet:   *)
(* "{" and "}" delimit an object, "k" is a member name with its colon,     *)
(* " " is white space and "x" is a byte no JSON text may hold there.  An   *)
(* error payload also holds "c", the member "code": "<the server's code>", *)
(* and "m", the member "message": "<the server's message>"; a member that  *)
(* is not the first of its object includes the comma before it.            *)
(***************************************************************************)
Bytes == {"{", "}", "k", " ", "x"}
ErrorBodyBytes == {"{", "}", "c", "m", " "}

\* the code and the message the server puts in its error payloads
ServerCode == "INVALID_REQUEST"
ServerMessage == "Invalid request parameters"

LimitReader_Exclusive(stream, n) ==
    IF n <= 1 THEN <<>>
    ELSE IF Len(stream) < n THEN stream
    ELSE SubSeq(stream, 1, n - 1)

\* io.LimitReader(r, n): at most the first n bytes of the stream
LimitReader(stream, n) ==
    IF n <= 0 THEN <<>>
    ELSE IF Len(stream) <= n THEN stream
    ELSE SubSeq(stream, 1, n)

\* json.Decoder.Decode on the stream: "ok", or the error it returns.  The
\* scanner reads byte by byte: a byte the grammar forbids is a syntax error;
\* the end of the stream before the value is complete is io.EOF when nothing
\* but white space was read and io.ErrUnexpectedEOF otherwise; bytes after
\* the first complete value are not read
RECURSIVE Scan(_, _, _, _, _)
Scan(stream, i, st, depth, nonSpace) ==
    IF i > Len(stream) THEN (IF nonSpace THEN "ErrUnexpectedEOF" ELSE "EOF")
    ELSE LET c == stream[i]
             close == IF depth = 1 THEN "ok"
                      ELSE Scan(stream, i + 1, "objEnd", depth - 1, TRUE)
         IN
         IF c = " " THEN Scan(stream, i + 1, st, depth, nonSpace)
         ELSE CASE st = "begin" ->
                     IF c = "{" THEN Scan(stream, i + 1, "objStart", depth + 1, TRUE)
                     ELSE "SyntaxError"
                [] st = "objStart" ->
                     IF c = "}" THEN close
                     ELSE IF c = "k" THEN Scan(stream, i + 1, "val", depth, TRUE)
                     ELSE IF c \in {"c", "m"} THEN Scan(stream, i + 1, "objEnd", depth, TRUE)
                     ELSE "SyntaxError"
                [] st = "val" ->
                     IF c = "{" THEN Scan(stream, i + 1, "objStart", depth + 1, TRUE)
                     ELSE "SyntaxError"
                [] OTHER ->
                     IF c = "}" THEN close
                     ELSE IF c = "k" THEN Scan(stream, i + 1, "val", depth, TRUE)
                     ELSE IF c \in {"c", "m"} THEN Scan(stream, i + 1, "objEnd", depth, TRUE)
                     ELSE "SyntaxError"

Decode(stream) == Scan(stream, 1, "begin", 0, FALSE)

\* the members of the outermost object of a stream Decode accepts: the fields
\* json.Decoder.Decode(&apiErr) sets; members of nested objects set nothing
RECURSIVE TopMembers(_, _, _, _)
TopMembers(stream, i, depth, acc) ==
    IF i > Len(stream) THEN acc
    ELSE LET c == stream[i] IN
         IF c = "{" THEN TopMembers(stream, i + 1, depth + 1, acc)
         ELSE IF c = "}"
              THEN IF depth = 1 THEN acc ELSE TopMembers(stream, i + 1, depth - 1, acc)
         ELSE IF c \in {"c", "m"} /\ depth = 1
              THEN TopMembers(stream, i + 1, depth, acc \cup {c})
         ELSE TopMembers(stream, i + 1, depth, acc)

\* var apiErr APIError after a successful Decode(&apiErr) (550-551)
decodedAPIError(stream) ==
    LET members == TopMembers(stream, 1, 0, {}) IN
    [Code |-> IF "c" \in members THEN ServerCode ELSE "",
     Message |-> IF "m" \in members THEN ServerMessage ELSE ""]

\* fmt.Errorf("API error [%s]: %s", apiErr.Code, apiErr.Message): the verb %w
\* is absent, so the error is an *errors.errorString that wraps nothing; chain
\* lists the dynamic types errors.As meets along Unwrap
apiError(apiErr) ==
    [kind |-> "api", code |-> apiErr.Code, message |-> apiErr.Message,
     chain |-> <<"*errors.errorString">>]

\* errors.As(err, &target) for a target of type T
errorsAs(err, T) == \E i \in 1..Len(err.chain) : err.chain[i] = T

\* what a compressor makes of a payload: a run of equal bytes takes the room
\* of one
RECURSIVE Collapse(_)
Collapse(bytes) ==
    IF Len(bytes) <= 1 THEN bytes
    ELSE IF bytes[1] = bytes[2] THEN Collapse(Tail(bytes))
    ELSE <<bytes[1]>> \o Collapse(Tail(bytes))

\* the bytes on the wire: the payload, or its compressed form, which opens
\* with the codec's magic bytes
Wire(resp) ==
    IF resp.codec = "identity" THEN resp.payload ELSE <<"x">> \o Collapse(resp.payload)

\* gzip.NewReader fails unless the body is a gzip stream
GzipFails(resp) == resp.encoding = "gzip" /\ resp.codec # "gzip"

\* the stream behind the size limit (535-544): decompressed when the response
\* declares gzip, the wire bytes otherwise
Reader(resp) == IF resp.encoding = "gzip" THEN resp.payload ELSE Wire(resp)

\* fmt.Errorf("API request failed with status %d: %s", resp.StatusCode,
\* resp.Status): the numeric code, and the status line's text, which names the
\* code and its reason phrase
statusError(resp) ==
    [kind |-> "status", StatusCode |-> resp.status,
     Status |-> <<resp.status, "reason phrase">>]

handleResponse_DecodeBeforeStatus(resp, target) ==
    IF GzipFails(resp) THEN [kind |-> "gzip"]
    ELSE LET limitedReader == LimitReader(Reader(resp), maxResponseSize)
             err == Decode(limitedReader)
         IN
         IF err = "EOF" \/ err = "ErrUnexpectedEOF" THEN [kind |-> "size"]
         ELSE IF err # "ok" THEN [kind |-> "decode"]
         ELSE IF resp.status < 200 \/ resp.status >= 300
              THEN apiError(decodedAPIError(limitedReader))
              ELSE [kind |-> "nil"]

\* the error handleResponse returns (532-568); target is TRUE for a non-nil target
handleResponse(resp, target) ==
    IF GzipFails(resp) THEN [kind |-> "gzip"]
    ELSE LET limitedReader == LimitReader(Reader(resp), maxResponseSize) IN
         IF resp.status < 200 \/ resp.status >= 300
         THEN IF Decode(limitedReader) # "ok" THEN statusError(resp)
              ELSE apiError(decodedAPIError(limitedReader))
         ELSE IF target
              THEN LET err == Decode(limitedReader) IN
                   IF err = "ok" THEN [kind |-> "nil"]
                   ELSE IF err = "EOF" \/ err = "ErrUnexpectedEOF" THEN [kind |-> "size"]
                   ELSE [kind |-> "decode"]
              ELSE [kind |-> "nil"]

\* the number of bytes handleResponse reads from the (decompressed) stream:
\* the decoder fills its buffer with whatever the limited reader yields, and
\* nothing is read when there is nothing to decode (532-567)
bytesRead(resp, target) ==
    IF GzipFails(resp) THEN 0
    ELSE IF resp.status >= 200 /\ resp.status < 300 /\ ~target THEN 0
    ELSE Len(LimitReader(Reader(resp), maxResponseSize))

\* bodies of at most n bytes
RECURSIVE BodiesUpTo(_)
BodiesUpTo(n) ==
    IF n = 0 THEN {<<>>}
    ELSE LET shorter == BodiesUpTo(n - 1) IN
         shorter \cup { Append(b, c) : b \in { x \in shorter : Len(x) = n - 1 }, c \in Bytes }

\* (Content-Encoding header, codec the server applied)
Encodings == { <<"", "identity">>, <<"gzip", "gzip">>, <<"gzip", "identity">>,
               <<"deflate", "deflate">> }
DecodeStatuses == {200, 204, 404, 500}

\* bodies a server may send with the response doRequest returned
CallBodies == { <<>>, <<"{", "}">>, <<"{">>, <<"x">>, <<"{", "c", "m", "}">> }

\* the API method after doRequest has returned (579-593): a doRequest error is
\* returned as it is; otherwise handleResponse decodes the response and its
\* deferred resp.Body.Close() runs on every return path (533)
apiCallReturn ==
    /\ pc = "done"
    /\ ~apiRet.returned
    /\ IF ret.err # NoError
       THEN /\ apiRet' = [returned |-> TRUE, err |-> ret.err]
            /\ UNCHANGED openBodies
       ELSE \E e \in Encodings, body \in CallBodies :
              LET resp == [status |-> ret.resp.status, encoding |-> e[1], codec |-> e[2],
                           payload |-> body]
              IN /\ apiRet' = [returned |-> TRUE, err |-> handleResponse(resp, TRUE)]
                 /\ openBodies' = openBodies - 1
    /\ UNCHANGED <<clientVars, url, ctx, pc, attempt, lastErr, timer, sel, ret, dispatched,
                   waits, lastOutcome, priorRetryable, cancelAt, probe, execs>>

(***************************************************************************)
(* Calls of the helpers on their own.                                      *)
(***************************************************************************)
ProbeErrors ==
    {NilError}
    \cup { BareError(c) : c \in CtxCauses \cup NetCauses }
    \cup { URLError(u, c) : u \in Urls, c \in CtxCauses \cup NetCauses }

ProbeStatus ==
    /\ probe = NoProbe
    /\ \E code \in 100..599 :
         probe' = [fn |-> "isRetryableStatusCode", in |-> code,
                   out |-> isRetryableStatusCode(code)]
    /\ UNCHANGED <<clientVars, execVars>>

ProbeError ==
    /\ probe = NoProbe
    /\ \E err \in ProbeErrors :
         probe' = [fn |-> "isRetryableError", in |-> err, out |-> isRetryableError(err)]
    /\ UNCHANGED <<clientVars, execVars>>

ProbeBackoff ==
    /\ probe = NoProbe
    /\ \E a \in 0..MaxAttemptProbe, k \in 0..(JitterSteps - 1) :
         probe' = [fn |-> "calculateBackoffDelay", in |-> [attempt |-> a, k |-> k],
                   out |-> [before |-> backoffBeforeCap(a, k),
                            delay |-> calculateBackoffDelay(a, k)]]
    /\ UNCHANGED <<clientVars, execVars>>

ProbeHandleResponse ==
    /\ probe = NoProbe
    /\ \E status \in DecodeStatuses, e \in Encodings, body \in BodiesUpTo(MaxBodyLen),
          target \in BOOLEAN :
         LET resp == [status |-> status, encoding |-> e[1], codec |-> e[2], payload |-> body]
         IN probe' = [fn |-> "handleResponse", in |-> [resp |-> resp, target |-> target],
                      out |-> handleResponse(resp, target),
                      read |-> bytesRead(resp, target)]
    /\ UNCHANGED <<clientVars, execVars>>

\* handleResponse on the response of a request the server rejected
ErrorStatuses == {400, 404}
ErrorEncodings == { <<"", "identity">>, <<"gzip", "gzip">> }

RECURSIVE ErrorBodiesUpTo(_)
ErrorBodiesUpTo(n) ==
    IF n = 0 THEN {<<>>}
    ELSE LET shorter == ErrorBodiesUpTo(n - 1) IN
         shorter \cup { Append(b, c) : b \in { x \in shorter : Len(x) = n - 1 },
                                       c \in ErrorBodyBytes }

ProbeAPIError ==
    /\ probe = NoProbe
    /\ \E status \in ErrorStatuses, e \in ErrorEncodings, body \in ErrorBodiesUpTo(MaxBodyLen) :
         LET resp == [status |-> status, encoding |-> e[1], codec |-> e[2], payload |-> body]
         IN probe' = [fn |-> "handleResponse", in |-> [resp |-> resp, target |-> TRUE],
                      out |-> handleResponse(resp, TRUE),
                      read |-> bytesRead(resp, TRUE)]
    /\ UNCHANGED <<clientVars, execVars>>

(***************************************************************************)
(* AIR identifiers.  An AIR string is a sequence of characters: ":", "@"   *)
(* and "." are the separators, and a word ("urn", "sdxl", "a") stands for  *)
(* a run of ordinary characters that is never split.  A field that holds   *)
(* the Go string "sdxl" is the one-word sequence <<"sdxl">>; "" is <<>>.   *)
(***************************************************************************)
validEcosystems == <<"sd1", "sd2", "sdxl", "gpt", "flux">>
validTypes == <<"model", "lora", "embedding", "vae", "control">>
validTypes_NoControl == <<"model", "lora", "embedding", "vae">>
validSources == <<"civitai", "huggingface", "openai">>

\* for _, valid := range list { if field == valid { return true } }
InList(field, list) == \E i \in 1..Len(list) : field = <<list[i]>>

IsValidEcosystem(a) == InList(a.Ecosystem, validEcosystems)

IsValidType_NoControl(a) == InList(a.Type, validTypes_NoControl)

IsValidType(a) == InList(a.Type, validTypes)

IsValidSource(a) == InList(a.Source, validSources)

Validate_RequiredOnly(a) ==
    IF a.Ecosystem = <<>> THEN "ecosystem is required"
    ELSE IF a.Type = <<>> THEN "type is required"
    ELSE IF a.Source = <<>> THEN "source is required"
    ELSE IF a.ID = <<>> THEN "ID is required"
    ELSE "nil"

\* (a *AIR) Validate: "nil" or the text of the error
Validate(a) ==
    IF a.Ecosystem = <<>> THEN "ecosystem is required"
    ELSE IF a.Type = <<>> THEN "type is required"
    ELSE IF a.Source = <<>> THEN "source is required"
    ELSE IF a.ID = <<>> THEN "ID is required"
    ELSE IF ~IsValidEcosystem(a) THEN "unsupported ecosystem"
    ELSE IF ~IsValidType(a) THEN "unsupported type"
    ELSE IF ~IsValidSource(a) THEN "unsupported source"
    ELSE "nil"

\* a nil *AIR
NilAIR == [nil |-> TRUE]

\* &AIR{Ecosystem: ..., Type: ..., Source: ..., ID: ...}
NewAIR(ecosystem, resourceType, source, id) ==
    [Ecosystem |-> ecosystem, Type |-> resourceType, Source |-> source, ID |-> id,
     Version |-> <<>>, Layer |-> <<>>, Format |-> <<>>, Raw |-> <<>>]

WithVersion(a, version) == [a EXCEPT !.Version = version]
WithLayer(a, layer) == [a EXCEPT !.Layer = layer]
WithFormat(a, format) == [a EXCEPT !.Format = format]

String_AlwaysVersion(a) ==
    LET air == <<"urn", ":", "air", ":">> \o a.Ecosystem \o <<":">> \o a.Type \o <<":">>
               \o a.Source \o <<":">> \o a.ID \o <<"@">> \o a.Version
        withLayer == IF a.Layer # <<>> THEN air \o <<":">> \o a.Layer ELSE air
    IN IF a.Format # <<>> THEN withLayer \o <<".">> \o a.Format ELSE withLayer

\* (a *AIR) String
String(a) ==
    LET air == <<"urn", ":", "air", ":">> \o a.Ecosystem \o <<":">> \o a.Type \o <<":">>
               \o a.Source \o <<":">> \o a.ID
        withVersion == IF a.Version # <<>> THEN air \o <<"@">> \o a.Version ELSE air
        withLayer == IF a.Layer # <<>> THEN withVersion \o <<":">> \o a.Layer ELSE withVersion
    IN IF a.Format # <<>> THEN withLayer \o <<".">> \o a.Format ELSE withLayer

Equal_IgnoresFormat(a, other) ==
    IF other = NilAIR THEN FALSE
    ELSE /\ a.Ecosystem = other.Ecosystem
         /\ a.Type = other.Type
         /\ a.Source = other.Source
         /\ a.ID = other.ID
         /\ a.Version = other.Version
         /\ a.Layer = other.Layer

\* (a *AIR) Equal
Equal(a, other) ==
    IF other = NilAIR THEN FALSE
    ELSE /\ a.Ecosystem = other.Ecosystem
         /\ a.Type = other.Type
         /\ a.Source = other.Source
         /\ a.ID = other.ID
         /\ a.Version = other.Version
         /\ a.Layer = other.Layer
         /\ a.Format = other.Format

\* airRegex.  A character class [^...]+ is a non-empty run free of the listed
\* characters; the groups before the ID exclude ":" and are followed by ":",
\* so each ends at the next ":".
NoneOf(str, chars) == \A i \in 1..Len(str) : str[i] \notin chars

\* index of the first ch at or after from, 0 when there is none
FirstAt(str, from, ch) ==
    IF \E k \in from..Len(str) : str[k] = ch
    THEN CHOOSE k \in from..Len(str) :
             str[k] = ch /\ \A l \in from..(k - 1) : str[l] # ch
    ELSE 0

Slice(str, i, j) == IF j < i THEN <<>> ELSE SubSeq(str, i, j)

\* an optional group  (?:<lead>([^<excluded>]+))?  matching exactly part
OptGroup(part, lead, excluded) ==
    \/ part = <<>>
    \/ /\ Len(part) >= 2
       /\ part[1] = lead
       /\ NoneOf(Tail(part), excluded)

Capture(part) == IF part = <<>> THEN <<>> ELSE Tail(part)

\* the ways  ([^@]+)(?:@([^:.]+))?(?::([^.]+))?(?:\.(.+))?$  matches rest:
\* the ID is rest[1..e], the version part ends at i, the layer part at j
airCandidates(rest) ==
    { c \in (1..Len(rest)) \X (1..Len(rest)) \X (1..Len(rest)) :
        /\ c[1] <= c[2]
        /\ c[2] <= c[3]
        /\ NoneOf(Slice(rest, 1, c[1]), {"@"})
        /\ OptGroup(Slice(rest, c[1] + 1, c[2]), "@", {":", "."})
        /\ OptGroup(Slice(rest, c[2] + 1, c[3]), ":", {"."})
        /\ OptGroup(Slice(rest, c[3] + 1, Len(rest)), ".", {}) }

\* greedy quantifiers, leftmost-first: the match a backtracking search finds
\* first takes the longest ID, then the longest version part, then the
\* longest layer part
Preferred(cands) ==
    CHOOSE c \in cands : \A d \in cands :
        \/ c[1] > d[1]
        \/ c[1] = d[1] /\ c[2] > d[2]
        \/ c[1] = d[1] /\ c[2] = d[2] /\ c[3] >= d[3]

\* no match of the regular expression (a nil slice)
NoMatch == <<>>

\* airRegex.FindStringSubmatch(airString): matches[1..7], or NoMatch
FindStringSubmatch(airString) ==
    LET n == Len(airString)
        p1 == FirstAt(airString, 5, ":")
        p2 == FirstAt(airString, p1 + 1, ":")
        p3 == FirstAt(airString, p2 + 1, ":")
    IN
    IF n < 4 \/ Slice(airString, 1, 4) # <<"urn", ":", "air", ":">> THEN NoMatch
    ELSE IF p1 <= 5 THEN NoMatch
    ELSE IF p2 <= p1 + 1 THEN NoMatch
    ELSE IF p3 <= p2 + 1 THEN NoMatch
    ELSE LET rest == Slice(airString, p3 + 1, n)
             cands == airCandidates(rest)
         IN
         IF cands = {} THEN NoMatch
         ELSE LET c == Preferred(cands) IN
              << Slice(airString, 5, p1 - 1),
                 Slice(airString, p1 + 1, p2 - 1),
                 Slice(airString, p2 + 1, p3 - 1),
                 Slice(rest, 1, c[1]),
                 Capture(Slice(rest, c[1] + 1, c[2])),
                 Capture(Slice(rest, c[2] + 1, c[3])),
                 Capture(Slice(rest, c[3] + 1, Len(rest))) >>

\* errors of ParseAIR: the text before the detail, and the wrapped error
NoAIRError == [text |-> "nil", wraps |-> "nil"]
emptyAIRError == [text |-> "AIR string cannot be empty", wraps |-> "nil"]
formatAIRError == [text |-> "invalid AIR format", wraps |-> "nil"]
invalidAIRError(err) == [text |-> "invalid AIR", wraps |-> err]

airOf_LayerFormatSwapped(airString, matches) ==
    [Raw |-> airString, Ecosystem |-> matches[1], Type |-> matches[2],
     Source |-> matches[3], ID |-> matches[4], Version |-> matches[5],
     Layer |-> matches[7], Format |-> matches[6]]

\* air := &AIR{Raw: airString, Ecosystem: matches[1], ...} (518-527)
airOf(airString, matches) ==
    [Raw |-> airString, Ecosystem |-> matches[1], Type |-> matches[2],
     Source |-> matches[3], ID |-> matches[4], Version |-> matches[5],
     Layer |-> matches[6], Format |-> matches[7]]

\* ParseAIR(airString): [air, err]
ParseAIR(airString) ==
    IF airString = <<>> THEN [air |-> NilAIR, err |-> emptyAIRError]
    ELSE LET matches == FindStringSubmatch(airString) IN
         IF matches = NoMatch THEN [air |-> NilAIR, err |-> formatAIRError]
         ELSE LET air == airOf(airString, matches)
                  err == Validate(air)
              IN IF err # "nil" THEN [air |-> NilAIR, err |-> invalidAIRError(err)]
                 ELSE [air |-> air, err |-> NoAIRError]

\* inputs of ParseAIR: a head followed by every tail of at most MaxTailLen
\* characters
TailChars == {"a", ":", "@", "."}

RECURSIVE TailsUpTo(_)
TailsUpTo(n) ==
    IF n = 0 THEN {<<>>}
    ELSE LET shorter == TailsUpTo(n - 1) IN
         shorter \cup { Append(t, c) : t \in { x \in shorter : Len(x) = n - 1 },
                                       c \in TailChars }

AIRHead(ecosystem, resourceType, source) ==
    <<"urn", ":", "air", ":", ecosystem, ":", resourceType, ":", source, ":">>

AIRHeads ==
    { AIRHead("sdxl", "model", "civitai"),
      AIRHead("bogus", "model", "civitai"),
      AIRHead("sdxl", "bogus", "civitai"),
      AIRHead("sdxl", "model", "bogus"),
      <<"urn", ":", "air", ":", "sdxl", ":", "model", ":">>,
      <<"urn", ":", "air", ":", ":", "model", ":", "civitai", ":">>,
      <<"air", ":", "sdxl", ":", "model", ":", "civitai", ":">>,
      <<>> }

\* ParseAIR(s), and ParseAIR(air.String()) of the AIR it returned
ProbeParseAIR ==
    /\ probe = NoProbe
    /\ \E head \in AIRHeads, tail \in TailsUpTo(MaxTailLen) :
         LET out == ParseAIR(head \o tail) IN
         probe' = [fn |-> "ParseAIR", in |-> head \o tail, out |-> out,
                   again |-> IF out.err = NoAIRError THEN ParseAIR(String(out.air)) ELSE out]
    /\ UNCHANGED <<clientVars, execVars>>

\* field values of the AIRs built or compared
Words == { <<"a">>, <<"b">> }
ListWords(list) == { <<list[i]>> : i \in 1..Len(list) }

\* NewAIR(...).WithVersion(...).WithLayer(...).WithFormat(...).String(), and
\* ParseAIR of that string; an absent suffix is not set
ProbeString ==
    /\ probe = NoProbe
    /\ \E e \in ListWords(validEcosystems), t \in ListWords(validTypes),
          s \in ListWords(validSources), id \in Words,
          version \in Words \cup {<<>>}, layer \in Words \cup {<<>>},
          format \in Words \cup {<<>>} :
         LET a == WithFormat(WithLayer(WithVersion(NewAIR(e, t, s, id), version), layer),
                             format)
         IN probe' = [fn |-> "String", in |-> a,
                      out |-> [s |-> String(a), parsed |-> ParseAIR(String(a))]]
    /\ UNCHANGED <<clientVars, execVars>>

\* Validate() on an AIR whose fields are set directly
ProbeValidate ==
    /\ probe = NoProbe
    /\ \E e \in ListWords(validEcosystems) \cup {<<"bogus">>, <<>>},
          t \in ListWords(validTypes) \cup {<<"bogus">>, <<>>},
          s \in ListWords(validSources) \cup {<<"bogus">>, <<>>},
          id \in {<<"a">>, <<>>}, version \in {<<"a">>, <<>>}, layer \in {<<"a">>, <<>>},
          format \in {<<"a">>, <<>>}, raw \in {<<"a">>, <<>>} :
         LET a == [Ecosystem |-> e, Type |-> t, Source |-> s, ID |-> id,
                   Version |-> version, Layer |-> layer, Format |-> format, Raw |-> raw]
         IN probe' = [fn |-> "Validate", in |-> a, out |-> Validate(a)]
    /\ UNCHANGED <<clientVars, execVars>>

\* the AIRs Equal is called on
EqualAIRs ==
    { [Ecosystem |-> e, Type |-> t, Source |-> s, ID |-> id,
       Version |-> version, Layer |-> layer, Format |-> format, Raw |-> raw] :
        e \in {<<"sdxl">>, <<"sd1">>}, t \in {<<"model">>, <<"lora">>},
        s \in {<<"civitai">>, <<"openai">>}, id \in Words,
        version \in {<<"a">>, <<>>}, layer \in {<<"a">>, <<>>},
        format \in {<<"a">>, <<>>}, raw \in {<<"a">>, <<>>} }

ProbeEqual ==
    /\ probe = NoProbe
    /\ \E a \in EqualAIRs, b \in EqualAIRs \cup {NilAIR} :
         probe' = [fn |-> "Equal", in |-> [a |-> a, other |-> b], out |-> Equal(a, b)]
    /\ UNCHANGED <<clientVars, execVars>>

\* *AIR values are references into a heap of AIR structs, a sequence indexed
\* by reference
Clone_Alias(heap, ref) == [heap |-> heap, ref |-> ref]

\* (a *AIR) Clone: a new struct holding copies of the eight fields
Clone(heap, ref) ==
    LET a == heap[ref] IN
    [heap |-> Append(heap, [Ecosystem |-> a.Ecosystem, Type |-> a.Type,
                            Source |-> a.Source, ID |-> a.ID, Version |-> a.Version,
                            Layer |-> a.Layer, Format |-> a.Format, Raw |-> a.Raw]),
     ref |-> Len(heap) + 1]

\* the AIRs Clone is called on
CloneAIRs == { a \in EqualAIRs : a.Ecosystem = <<"sdxl">> /\ a.Type = <<"model">>
                                 /\ a.Source = <<"civitai">> }

\* clone := air.Clone()
ProbeClone ==
    /\ probe = NoProbe
    /\ \E a \in CloneAIRs :
         LET c == Clone(<<a>>, 1) IN
         probe' = [fn |-> "Clone", heap |-> c.heap, orig |-> 1, clone |-> c.ref,
                   in |-> a, written |-> {}, steps |-> 0]
    /\ UNCHANGED <<clientVars, execVars>>

\* the struct after one write through a reference: a fluent setter (564-579,
\* it assigns the receiver's field) or a direct field assignment
AIRWrites(a) ==
    { WithVersion(a, v) : v \in {<<"b">>, <<>>} }
    \cup { WithLayer(a, v) : v \in {<<"b">>, <<>>} }
    \cup { WithFormat(a, v) : v \in {<<"b">>, <<>>} }
    \cup { [a EXCEPT !.ID = <<"c">>], [a EXCEPT !.Raw = <<"c">>],
           [a EXCEPT !.Ecosystem = <<"flux">>] }

\* a write through the original's or the clone's reference
WriteAIR ==
    /\ probe.fn = "Clone"
    /\ probe.steps < MaxMutations
    /\ \E who \in {"orig", "clone"} :
         LET ref == probe[who] IN
         \E b \in AIRWrites(probe.heap[ref]) :
           probe' = [probe EXCEPT !.heap[ref] = b,
                                  !.written = @ \cup {who},
                                  !.steps = @ + 1]
    /\ UNCHANGED <<clientVars, execVars>>

\* the client after NewClient(token, WithRetryConfig(...), WithMaxResponseSize(...))
InitClient(retries, policies, sizes) ==
    /\ maxRetries \in retries
    /\ \E p \in policies : retryDelay = p[1] /\ maxRetryDelay = p[2]
    /\ maxResponseSize \in sizes
    /\ arch \in Archs

NoApiRet == [returned |-> FALSE, err |-> [kind |-> "nil"]]

InitExec ==
    /\ url = <<>>
    /\ ctx = "active"
    /\ pc = "idle"
    /\ attempt = 0
    /\ lastErr = NilError
    /\ timer = NoTimer
    /\ sel = "none"
    /\ ret = [resp |-> NoResp, err |-> NoError]
    /\ dispatched = 0
    /\ waits = 0
    /\ lastOutcome = NoOutcome
    /\ priorRetryable = TRUE
    /\ cancelAt = -1
    /\ openBodies = 0
    /\ apiRet = NoApiRet
    /\ execs = <<>>

(***************************************************************************)
(* Spec: executions of doRequest on a client with any retry policy.        *)
(***************************************************************************)
Init == InitClient(0..MaxRetriesBound, Policies, {MaxBodyLen}) /\ InitExec /\ probe = NoProbe

Next ==
    \/ \E u \in Urls \cup {BadUrl} : doRequestCall(u)
    \/ CreateFails
    \/ Dispatch
    \/ TimerFire
    \/ \E c \in CtxCauses : Cancel(c)
    \/ SelectResume
    \/ Exhausted
    \/ apiCallReturn

Spec == Init /\ [][Next]_vars

(***************************************************************************)
(* SpecLive: executions of doRequest in which every dispatched network     *)
(* call returns, every timer fires unless the wait has ended, and the      *)
(* goroutine keeps running; the caller may or may not cancel.              *)
(***************************************************************************)
InitLive ==
    /\ InitClient(0..MaxRetriesBound, {<<1, 8>>}, {MaxBodyLen})
    /\ arch = "amd64"
    /\ InitExec
    /\ probe = NoProbe

SpecLive ==
    /\ InitLive
    /\ [][Next]_vars
    /\ WF_vars(CreateFails)
    /\ WF_vars(Dispatch)
    /\ WF_vars(TimerFire)
    /\ WF_vars(SelectResume)
    /\ WF_vars(Exhausted)

(***************************************************************************)
(* SpecClassify: the classifiers and the backoff calculator on their own.  *)
(***************************************************************************)
InitClassify ==
    InitClient({MaxRetriesBound}, Policies, {MaxBodyLen}) /\ InitExec /\ probe = NoProbe

NextClassify == ProbeStatus \/ ProbeError \/ ProbeBackoff

SpecClassify == InitClassify /\ [][NextClassify]_vars

(***************************************************************************)
(* SpecDecode: handleResponse on its own, for every size limit below the   *)
(* longest body.                                                           *)
(***************************************************************************)
InitDecode ==
    /\ InitClient({MaxRetriesBound}, {<<1, 8>>}, 1..(MaxBodyLen - 1))
    /\ arch = "amd64"
    /\ InitExec
    /\ probe = NoProbe

NextDecode == ProbeHandleResponse

SpecDecode == InitDecode /\ [][NextDecode]_vars

(***************************************************************************)
(* SpecAPIError: handleResponse on rejected requests, for every size limit *)
(* up to the longest error payload.                                        *)
(***************************************************************************)
InitAPIError ==
    /\ InitClient({MaxRetriesBound}, {<<1, 8>>}, 1..MaxBodyLen)
    /\ arch = "amd64"
    /\ InitExec
    /\ probe = NoProbe

NextAPIError == ProbeAPIError

SpecAPIError == InitAPIError /\ [][NextAPIError]_vars

(***************************************************************************)
(* SpecAIR: the AIR parser, builder, validator and comparison.             *)
(***************************************************************************)
InitAIR ==
    /\ InitClient({MaxRetriesBound}, {<<1, 8>>}, {MaxBodyLen})
    /\ arch = "amd64"
    /\ InitExec
    /\ probe = NoProbe

NextAIR == ProbeParseAIR \/ ProbeString \/ ProbeValidate \/ ProbeEqual

SpecAIR == InitAIR /\ [][NextAIR]_vars

(***************************************************************************)
(* SpecClone: Clone() followed by writes to the original and the clone.    *)
(***************************************************************************)
NextClone == ProbeClone \/ WriteAIR

SpecClone == InitAIR /\ [][NextClone]_vars

(***************************************************************************)
(* SpecConcurrent: two goroutines run doRequest on one client.             *)
(***************************************************************************)
InitConcurrent ==
    /\ InitClient({1, 2}, {<<1, 8>>}, {MaxBodyLen})
    /\ arch = "amd64"
    /\ InitExec
    /\ probe = NoProbe

NextConcurrent ==
    \/ Launch
    \/ \E e \in Execs : DispatchOf(e)
    \/ \E e \in Execs : CancelOf(e)
    \/ \E e \in Execs : TimerOf(e)
    \/ \E e \in Execs : CtxDoneOf(e)
    \/ \E e \in Execs : ExhaustedOf(e)

SpecConcurrent == InitConcurrent /\ [][NextConcurrent]_vars

(***************************************************************************)
(* Properties.                                                             *)
(***************************************************************************)
\* C1: with maxRetries = N >= 0, no cancellation and every attempt ending in a
\* retryable outcome, doRequest dispatches exactly N+1 attempts and returns a
\* retries-exhausted error with no response (one attempt for N = 0); it never
\* dispatches more than N+1 attempts.
C1_ExhaustAfterNPlusOneAttempts ==
    /\ dispatched <= maxRetries + 1
    /\ (/\ pc = "done"
        /\ ctx = "active"
        /\ dispatched >= 1
        /\ priorRetryable
        /\ OutcomeRetryable(lastOutcome))
       => /\ dispatched = maxRetries + 1
          /\ ret.err.kind = "exhausted"
          /\ ret.resp = NoResp

C1_Witness ==
    /\ pc = "done"
    /\ ctx = "active"
    /\ maxRetries = 2
    /\ dispatched = 3
    /\ priorRetryable
    /\ lastOutcome.resp.status = 500
    /\ ret.err.kind = "exhausted"

\* C2: when the attempts so far ended in retryable outcomes and the latest one
\* received a response whose status is not retryable, doRequest has returned
\* that response with no error, the number of attempts is one more than the
\* number of retryable outcomes before it (the loop index), and nothing
\* further is dispatched.
C2_NonRetryableStatusReturned ==
    (/\ dispatched >= 1
     /\ priorRetryable
     /\ lastOutcome.err = NilError
     /\ lastOutcome.resp.status \notin RetryableStatuses)
    => /\ pc = "done"
       /\ ret = [resp |-> lastOutcome.resp, err |-> NoError]
       /\ dispatched = attempt + 1
       /\ dispatched <= maxRetries + 1

C2_Witness ==
    /\ pc = "done"
    /\ dispatched = 3
    /\ priorRetryable
    /\ lastOutcome.resp.status = 200
    /\ ret = [resp |-> Resp(200), err |-> NoError]

\* C3: once the context is cancelled or its deadline expires while doRequest is
\* blocked in a backoff wait, no further attempt is dispatched and doRequest
\* returns the context's own error, never a retries-exhausted error.
C3_CancelDuringWaitReturnsCtxErr ==
    cancelAt # -1 =>
        /\ dispatched = cancelAt
        /\ \/ pc = "select" /\ sel = "ctx"
           \/ /\ pc = "done"
              /\ ret = [resp |-> NoResp,
                        err |-> [kind |-> "ctx", attempts |-> 0, wrapped |-> BareError(ctx)]]

C3_Witness ==
    /\ cancelAt # -1
    /\ pc = "done"
    /\ ctx = "DeadlineExceeded"
    /\ dispatched < maxRetries + 1

C5_RetryableStatusCodes ==
    probe.fn = "isRetryableStatusCode" =>
        (probe.out <=> probe.in \in RetryableStatuses)

C5_Witness ==
    /\ probe.fn = "isRetryableStatusCode"
    /\ probe.in = 504
    /\ probe.out

\* C6: an attempt that fails because the caller cancelled the context is never
\* classified retryable: doRequest returns the wrapped failure at once, with no
\* wait, no further attempt and no retries-exhausted error, whatever the
\* request URL contains.
C6_CancellationNeverRetried ==
    (/\ dispatched >= 1
     /\ lastOutcome.err # NilError
     /\ IsCancellation(lastOutcome.err))
    => /\ ~isRetryableError(lastOutcome.err)
       /\ pc = "done"
       /\ ret = [resp |-> NoResp, err |-> executeError(lastOutcome.err)]

\* C7: for every attempt index the delay before the cap lies within 25% of
\* retryDelay * 2^attempt, and the returned delay never exceeds maxRetryDelay.
C7_BackoffWithinJitterRange ==
    probe.fn = "calculateBackoffDelay" =>
        LET nominal == retryDelay * Pow2(probe.in.attempt) IN
        /\ 4 * probe.out.before >= 3 * nominal
        /\ 4 * probe.out.before <= 5 * nominal
        /\ probe.out.delay <= maxRetryDelay

\* C8: calculateBackoffDelay never returns a negative duration.
C8_BackoffNeverNegative ==
    probe.fn = "calculateBackoffDelay" => probe.out.delay >= 0

\* C9: a 2xx response whose body is larger than maxResponseSize, decoded into a
\* non-nil target, never reports success, whatever its first maxResponseSize
\* bytes are (the error the claim names for it is size-limit-exceeded).
C9_OversizedBodyNeverSucceeds ==
    (/\ probe.fn = "handleResponse"
     /\ probe.in.resp.status >= 200
     /\ probe.in.resp.status < 300
     /\ probe.in.target
     /\ ~GzipFails(probe.in.resp)
     /\ Len(Reader(probe.in.resp)) > maxResponseSize)
    => probe.out.kind # "nil"

\* C10: the size-limit-exceeded error is returned only for a body the ceiling
\* cut: a 2xx body that fits within maxResponseSize never yields it.
C10_SizeErrorOnlyWhenCut ==
    (/\ probe.fn = "handleResponse"
     /\ probe.in.resp.status >= 200
     /\ probe.in.resp.status < 300
     /\ probe.in.target
     /\ probe.out.kind = "size")
    => Len(Reader(probe.in.resp)) > maxResponseSize

\* a payload that is one JSON object of code and message members
FlatErrorPayload(b) ==
    LET nb == SelectSeq(b, LAMBDA c : c # " ") IN
    /\ Len(nb) >= 2
    /\ nb[1] = "{"
    /\ nb[Len(nb)] = "}"
    /\ \A i \in 2..(Len(nb) - 1) : nb[i] \in {"c", "m"}

HasMember(b, c) == \E i \in 1..Len(b) : b[i] = c

\* C11: a response with a non-2xx, non-retryable status whose body is a
\* structured error payload no larger than maxResponseSize yields an error
\* carrying the code and the message of the payload, never the size-limit
\* error, for every size limit.
C11_ErrorPayloadWithinLimitIsReported ==
    (/\ probe.fn = "handleResponse"
     /\ (probe.in.resp.status < 200 \/ probe.in.resp.status >= 300)
     /\ probe.in.resp.status \notin RetryableStatuses
     /\ ~GzipFails(probe.in.resp)
     /\ FlatErrorPayload(Reader(probe.in.resp))
     /\ Len(Reader(probe.in.resp)) <= maxResponseSize)
    => /\ probe.out.kind = "api"
       /\ probe.out.code = (IF HasMember(probe.in.resp.payload, "c") THEN ServerCode ELSE "")
       /\ probe.out.message =
              (IF HasMember(probe.in.resp.payload, "m") THEN ServerMessage ELSE "")

C11_Witness ==
    /\ probe.fn = "handleResponse"
    /\ probe.in.resp.status = 400
    /\ probe.in.resp.payload = <<"{", "c", "m", "}">>
    /\ maxResponseSize = 4
    /\ probe.out.kind = "api"
    /\ probe.out.code = ServerCode
    /\ probe.out.message = ServerMessage

\* C12: the error returned for a non-2xx response with a structured error
\* body is a typed APIError: errors.As(err, &apiErr) succeeds on it.
C12_APIErrorIsTyped ==
    (/\ probe.fn = "handleResponse"
     /\ probe.out.kind = "api")
    => errorsAs(probe.out, "*APIError")

\* C13: every response body obtained during one API call is closed by the time
\* the call returns, on every path; doRequest holds no open body while it
\* waits or after it returned an error, and hands over exactly one open body
\* with the response it returns.
C13_BodiesClosedAtReturn ==
    /\ apiRet.returned => openBodies = 0
    /\ pc = "select" => openBodies = 0
    /\ (pc = "done" /\ ~apiRet.returned) =>
          openBodies = (IF ret.resp = NoResp THEN 0 ELSE 1)

C13_Witness ==
    /\ apiRet.returned
    /\ dispatched = 3
    /\ lastOutcome.resp.status = 404
    /\ apiRet.err.kind = "api"
    /\ openBodies = 0

\* C14: when the latest attempt failed with a transport failure the classifier
\* does not accept as retryable, doRequest has returned at once an error that
\* wraps that failure: no attempt and no backoff wait follows it, and the
\* error is not the "after N attempts" one.
C14_NonRetryableFailureReturnsAtOnce ==
    (/\ dispatched >= 1
     /\ lastOutcome.err # NilError
     /\ ~isRetryableError(lastOutcome.err))
    => /\ pc = "done"
       /\ ret = [resp |-> NoResp, err |-> executeError(lastOutcome.err)]
       /\ ret.err.kind # "exhausted"
       /\ ret.err.attempts = 0
       /\ waits = dispatched - 1

C14_Witness ==
    /\ pc = "done"
    /\ dispatched = 2
    /\ waits = 1
    /\ maxRetries = 3
    /\ lastOutcome.err.cause \notin RetryableCauses
    /\ lastOutcome.err.cause \notin CtxCauses
    /\ ret.err.kind = "execute"
    /\ ret.err.wrapped = lastOutcome.err

\* the vocabularies and the compared fields as the specification lists them
VocabEcosystems == { <<"sd1">>, <<"sd2">>, <<"sdxl">>, <<"gpt">>, <<"flux">> }
VocabTypes == { <<"model">>, <<"lora">>, <<"embedding">>, <<"vae">>, <<"control">> }
VocabSources == { <<"civitai">>, <<"huggingface">>, <<"openai">> }
SevenFields == {"Ecosystem", "Type", "Source", "ID", "Version", "Layer", "Format"}
SameFields(x, y) == \A f \in SevenFields : x[f] = y[f]

\* urn:air:E:T:S:I followed by the suffixes that are present
Mandatory(a) ==
    <<"urn", ":", "air", ":">> \o a.Ecosystem \o <<":">> \o a.Type \o <<":">>
    \o a.Source \o <<":">> \o a.ID
Suffix(lead, field) == IF field = <<>> THEN <<>> ELSE <<lead>> \o field
Canonical(a) ==
    Mandatory(a) \o Suffix("@", a.Version) \o Suffix(":", a.Layer) \o Suffix(".", a.Format)

\* C15: for a string urn:air:E:T:S:I@V:L.F whose seven components are
\* non-empty and free of ":", "@" and ".", with E, T, S in their vocabularies,
\* ParseAIR returns an AIR with exactly those seven fields; for urn:air:E:T:S:I
\* it returns the four mandatory fields with empty Version, Layer and Format.
C15_ParseReturnsComponents ==
    (/\ probe.fn = "String"
     /\ \/ probe.in.Version # <<>> /\ probe.in.Layer # <<>> /\ probe.in.Format # <<>>
        \/ probe.in.Version = <<>> /\ probe.in.Layer = <<>> /\ probe.in.Format = <<>>
     /\ probe.out.s = Canonical(probe.in))
    => /\ probe.out.parsed.err = NoAIRError
       /\ SameFields(probe.out.parsed.air, probe.in)

C15_Witness ==
    /\ probe.fn = "String"
    /\ probe.out.s = AIRHead("sdxl", "model", "civitai") \o <<"a", "@", "b", ":", "a", ".", "b">>
    /\ probe.out.parsed.err = NoAIRError
    /\ probe.out.parsed.air.ID = <<"a">>
    /\ probe.out.parsed.air.Version = <<"b">>
    /\ probe.out.parsed.air.Layer = <<"a">>
    /\ probe.out.parsed.air.Format = <<"b">>

IsFormatError(err) == err.text \in {"AIR string cannot be empty", "invalid AIR format"}
IsValidationError(err) == err.text = "invalid AIR"

C17_ValidateMandatoryFieldsOnly ==
    /\ probe.fn = "Validate" =>
         /\ (probe.out = "nil") <=>
               (/\ probe.in.Ecosystem \in VocabEcosystems
                /\ probe.in.Type \in VocabTypes
                /\ probe.in.Source \in VocabSources
                /\ probe.in.ID # <<>>)
         /\ probe.out = Validate([probe.in EXCEPT !.Version = <<>>, !.Layer = <<>>,
                                                  !.Format = <<>>, !.Raw = <<>>])
    /\ (probe.fn = "ParseAIR" /\ probe.out.err = NoAIRError) =>
         Validate(probe.out.air) = "nil"

C17_Witness ==
    /\ probe.fn = "Validate"
    /\ probe.in.Type = <<"control">>
    /\ probe.in.Version = <<"a">>
    /\ probe.in.Format = <<>>
    /\ probe.in.Raw = <<"a">>
    /\ probe.out = "nil"

\* C18: for every string s that ParseAIR accepts, ParseAIR(ParseAIR(s).String())
\* succeeds and its AIR is Equal to ParseAIR(s).
C18_ParseStringRoundTrip ==
    (/\ probe.fn = "ParseAIR"
     /\ probe.out.err = NoAIRError)
    => /\ probe.again.err = NoAIRError
       /\ Equal(probe.again.air, probe.out.air)
       /\ Equal(probe.out.air, probe.again.air)

C18_Witness ==
    /\ probe.fn = "ParseAIR"
    /\ probe.in = AIRHead("sdxl", "model", "civitai") \o <<"a", "@", "a", ":", "a">>
    /\ probe.out.err = NoAIRError
    /\ probe.again.err = NoAIRError
    /\ probe.again.air.Version = <<"a">>
    /\ probe.again.air.Layer = <<"a">>

\* C19: for each of the eight presence/absence combinations of the optional
\* suffixes (components free of ":", "@" and "."), String() emits exactly the
\* present ones in the order @version, :layer, .format, and ParseAIR of that
\* string returns each present suffix in its own field and the ID unchanged.
C19_OptionalSuffixesIndependent ==
    probe.fn = "String" =>
        /\ probe.out.s = Canonical(probe.in)
        /\ probe.out.parsed.err = NoAIRError
        /\ SameFields(probe.out.parsed.air, probe.in)

\* C20: a.Equal(b) is true exactly when b is non-nil and the seven fields are
\* pairwise identical; Raw is not compared.
C20_EqualIsFieldWise ==
    probe.fn = "Equal" =>
        (probe.out <=> (/\ probe.in.other # NilAIR
                        /\ SameFields(probe.in.a, probe.in.other)))

C20_Witness ==
    /\ probe.fn = "Equal"
    /\ probe.in.other # NilAIR
    /\ probe.in.a.Format = <<"a">>
    /\ probe.in.other.Format = <<>>
    /\ \A f \in SevenFields \ {"Format"} : probe.in.a[f] = probe.in.other[f]
    /\ ~probe.out

\* C21: Clone() returns an AIR Equal to the original (and holding the same
\* Raw), and as long as only the clone is written every field of the original
\* is unchanged; likewise for the clone while only the original is written.
C21_CloneIsIndependent ==
    probe.fn = "Clone" =>
        /\ probe.written = {} =>
              /\ Equal(probe.heap[probe.orig], probe.heap[probe.clone])
              /\ probe.heap[probe.clone] = probe.in
        /\ "orig" \notin probe.written => probe.heap[probe.orig] = probe.in
        /\ "clone" \notin probe.written => probe.heap[probe.clone] = probe.in

C21_Witness ==
    /\ probe.fn = "Clone"
    /\ probe.written = {"clone"}
    /\ probe.steps = 2
    /\ probe.in.Version = <<"a">>
    /\ probe.heap[probe.clone].Version = <<"b">>
    /\ probe.heap[probe.clone].Format = <<>>
    /\ probe.in.Format = <<"a">>
    /\ probe.heap[probe.orig] = probe.in

C23_CeilingAfterDecompression ==
    (/\ probe.fn = "handleResponse"
     /\ ~GzipFails(probe.in.resp))
    => /\ probe.read <= maxResponseSize
       /\ (/\ probe.in.resp.encoding = "gzip"
           /\ probe.in.resp.status >= 200
           /\ probe.in.resp.status < 300
           /\ probe.in.target)
          => /\ (/\ Len(Wire(probe.in.resp)) <= maxResponseSize
                 /\ Len(probe.in.resp.payload) > maxResponseSize)
                => probe.out.kind # "nil"
             /\ (/\ Len(probe.in.resp.payload) <= maxResponseSize
                 /\ Decode(probe.in.resp.payload) = "ok")
                => probe.out.kind = "nil"

\* the response doRequest handed over is the latest attempt's and its status
\* is not retryable; an API error was built from such a response only
HandedOverNotRetryable ==
    /\ (pc = "done" /\ ret.resp # NoResp) =>
          /\ ret.err = NoError
          /\ ret.resp = lastOutcome.resp
          /\ ret.resp.status \notin RetryableStatuses
    /\ (apiRet.returned /\ apiRet.err.kind = "api") =>
          /\ ret.resp # NoResp
          /\ ret.resp.status \notin RetryableStatuses
          /\ (ret.resp.status < 200 \/ ret.resp.status >= 300)

\* C24: no response with a retryable status (429, 500, 502, 503, 504) is ever
\* handed by doRequest to handleResponse, an API error is only constructed
\* for a non-retryable status, and from doRequest's return on (the step in
\* which handleResponse runs included) no attempt is dispatched.
C24_RetryableStatusNeverHandedOver ==
    [][ /\ HandedOverNotRetryable'
        /\ pc = "done" => (pc' = "done" /\ dispatched' = dispatched) ]_vars

C24_Witness ==
    /\ apiRet.returned
    /\ apiRet.err.kind = "api"
    /\ dispatched = 3
    /\ priorRetryable
    /\ lastOutcome.resp.status = 404
    /\ ret.resp.status = 404

\* what one execution returns, as a function of its own attempts alone
OwnResult(x) ==
    LET last == x.outs[Len(x.outs)] IN
    IF x.cancelledInWait THEN [resp |-> NoResp, err |-> waitError(x.ctx)]
    ELSE IF last.err = NilError /\ last.resp.status \notin RetryableStatuses
         THEN [resp |-> last.resp, err |-> NoError]
    ELSE IF last.err # NilError /\ ~isRetryableError(last.err)
         THEN [resp |-> NoResp, err |-> executeError(last.err)]
    ELSE [resp |-> NoResp, err |-> exhaustedError(FailureOf(last))]

\* C25: with several executions running concurrently on one client, under
\* every interleaving each execution dispatches at most maxRetries+1
\* attempts, its attempt index counts its own attempts, its result is
\* determined by the outcomes of its own attempts, and no step of an
\* execution changes the client's retry policy or response size limit.
C25_ConcurrentExecutionsIndependent ==
    [][ /\ clientVars' = clientVars
        /\ \A e \in Execs :
             LET x == execs'[e] IN
             /\ Len(x.outs) <= maxRetries + 1
             /\ x.pc = "select" => x.attempt = Len(x.outs) - 1
             /\ x.pc = "done" => (Len(x.outs) >= 1 /\ x.ret = OwnResult(x)) ]_vars

C25_Witness ==
    /\ execs # <<>>
    /\ maxRetries = 2
    /\ execs[1].pc = "done"
    /\ execs[2].pc = "done"
    /\ Len(execs[1].outs) = 3
    /\ execs[1].ret.err.kind = "exhausted"
    /\ Len(execs[2].outs) = 2
    /\ execs[2].ret.resp = Resp(200)

\* C27: every attempt of one execution sends the same method, URL, headers
\* and the complete body bytes the caller passed, as the first attempt did; a
\* retry never sends a partially consumed or an empty body for a non-empty one.
C27_EveryAttemptSendsFullRequest ==
    execs # <<>> =>
        \A e \in Execs :
            LET x == execs[e] IN
            /\ Len(x.sent) = Len(x.outs)
            /\ \A i \in 1..Len(x.sent) :
                 /\ x.sent[i] = x.sent[1]
                 /\ x.sent[i].method = x.method
                 /\ x.sent[i].url = x.url
                 /\ x.sent[i].headers = requestHeaders
                 /\ x.sent[i].body = (IF x.body = NilBody THEN <<>> ELSE x.body)

C27_Witness ==
    /\ execs # <<>>
    /\ execs[1].method = "POST"
    /\ Len(execs[1].sent) = 3
    /\ execs[1].sent[3].body = <<"b1", "b2">>
    /\ execs[1].pc = "done"

\* C26: every execution of doRequest eventually reaches a terminal outcome
\* (response returned, retries exhausted, fatal transport error or
\* cancellation), provided each network call returns and each wait ends by
\* its timer or its context; from a terminal outcome on no attempt and no
\* wait is started.
C26_DoRequestTerminates ==
    /\ (pc # "idle") ~> (pc = "done")
    /\ [][ pc = "done" => /\ pc' = "done"
                          /\ ret' = ret
                          /\ dispatched' = dispatched
                          /\ waits' = waits ]_vars

C26_Witness ==
    /\ pc = "done"
    /\ maxRetries = 3
    /\ dispatched = 4
    /\ waits = 3
    /\ ret.err.kind = "exhausted"
    /\ ctx = "active"

(***************************************************************************)
(* SpecAnyRetries: executions of doRequest on a client configured with     *)
(* WithRetryConfig(maxRetries, ...) for any int the option stores, the     *)
(* negative ones included: the option assigns its argument unchecked.      *)
(***************************************************************************)
WithRetryConfig == (0 - NegativeRetries)..1

InitAnyRetries ==
    /\ InitClient(WithRetryConfig, {<<1, 8>>}, {MaxBodyLen})
    /\ arch = "amd64"
    /\ InitExec
    /\ probe = NoProbe

SpecAnyRetries == InitAnyRetries /\ [][Next]_vars

\* C28: for every retry policy WithRetryConfig accepts, a negative maxRetries
\* included, doRequest has dispatched at least one attempt when it returns
\* (a return because the request could not be built is left aside), and a
\* retries-exhausted error wraps a non-nil last failure and states an attempt
\* count of at least 1.
C28_AtLeastOneAttempt ==
    (pc = "done" /\ ret.err.kind # "create") =>
        /\ dispatched >= 1
        /\ ret.err.kind = "exhausted" =>
              /\ ret.err.wrapped # NilError
              /\ ret.err.attempts >= 1

\* C29: attempts and backoff waits strictly alternate.  The number of waits
\* is the number of attempts or one less; while doRequest waits, the attempt
\* just made has index attempt < maxRetries, it is attempt number attempt + 1,
\* as many waits as attempts have begun, and the timer runs for
\* calculateBackoffDelay(attempt); no more than maxRetries + 1 attempts are
\* made; and an execution that has returned otherwise than from a cancelled
\* wait, after m >= 1 attempts, has performed m - 1 waits.
C29_AttemptsAndWaitsAlternate ==
    /\ waits <= dispatched
    /\ dispatched <= maxRetries + 1
    /\ dispatched >= 1 => waits >= dispatched - 1
    /\ pc = "select" =>
          /\ attempt < maxRetries
          /\ dispatched = attempt + 1
          /\ waits = dispatched
          /\ \E k \in 0..(JitterSteps - 1) : timer.delay = calculateBackoffDelay(attempt, k)
    /\ (pc = "loop" /\ dispatched >= 1) => waits = dispatched - 1 \/ attempt = waits
    /\ (pc = "done" /\ dispatched >= 1 /\ ret.err.kind # "ctx") => waits = dispatched - 1

\* all maxRetries + 1 = 4 attempts of a 100/400 policy were made with the three
\* waits between them, and the retries are exhausted
C29_Witness ==
    /\ pc = "done"
    /\ retryDelay = 100
    /\ maxRetries = MaxRetriesBound
    /\ dispatched = maxRetries + 1
    /\ waits = maxRetries
    /\ ret.err.kind = "exhausted"

\* the encodings named in the Accept-Encoding header doRequest sets (486)
advertisedEncodings == {"gzip", "deflate"}

\* C30: a successful response that declares, and is compressed with, an
\* encoding the client advertises in Accept-Encoding is decompressed before
\* the size ceiling and the JSON decoder: when its payload is valid JSON
\* within the ceiling, handleResponse decodes it into the target and returns
\* nil.
C30_AdvertisedEncodingsDecoded ==
    (/\ probe.fn = "handleResponse"
     /\ probe.in.resp.encoding \in advertisedEncodings
     /\ probe.in.resp.codec = probe.in.resp.encoding
     /\ probe.in.resp.status >= 200
     /\ probe.in.resp.status < 300
     /\ probe.in.target
     /\ Len(probe.in.resp.payload) <= maxResponseSize
     /\ Decode(probe.in.resp.payload) = "ok")
    => probe.out.kind = "nil"

====
